---- MODULE Spec2Model ----
(***************************************************************************)
(* Review-scheduling state machine of the flashcard tracker.               *)
(*                                                                         *)
(* The state is the "flashcards" table behind FlashcardDB (src/app/db.py), *)
(* the wall clock that datetime.now(timezone.utc) reads, and the response  *)
(* of the last FlashcardDB call.  Time is counted in whole hours; the      *)
(* isoformat() strings the code sends are compared by the database as      *)
(* timestamps, so a timestamp is modelled by its number of hours.          *)
(***************************************************************************)
EXTENDS Integers, Sequences, FiniteSets, TLC

VARIABLES flashcards, next_id, clock, response,
          chat_history, next_chat_id, chat_messages, report, kickoffs, session,
          pages, pending

\* The "flashcards" table, its id sequence, the clock and the last response.
card_vars == <<flashcards, next_id, clock, response>>
\* The "chat_history" table, its id sequence, the chat page's messages and
\* report, the number of crew.kickoff calls and the last chat call.
chat_vars == <<chat_history, next_chat_id, chat_messages, report, kickoffs, session>>

\* The Due for Review tab each browser session shows, and the call of
\* update_flashcard_status each session has under way.
session_vars == <<pages, pending>>

vars == <<flashcards, next_id, clock, response,
          chat_history, next_chat_id, chat_messages, report, kickoffs, session,
          pages, pending>>

(* ------------------------------ bounds -------------------------------- *)

\* Number of cards ever inserted in the lifecycle specification (ids 1..MaxCards).
MaxCards == 1
\* Last hour the clock may reach.
MaxClock == 24
\* Number of cards of the tables the selector specification draws.
MaxDueCards == 3
\* Largest limit passed to get_due_flashcards in the selector specification.
MaxLimit == 3
\* Largest hour (creation time, now) of the selector specification.
MaxDue == 2

(* -------------------------- program constants ------------------------- *)

\* SQL NULL / Python None in a timestamp column.
NULL == -1
\* timedelta(hours=24) and timedelta(hours=48)
OnceCheckedDelay == 24
TwiceCheckedDelay == 48
\* get_due_flashcards(user_id, limit=10)
DefaultLimit == 10

ToLearn == "to-learn"
OnceChecked == "once-checked"
TwiceChecked == "twice-checked"
FullyMemorized == "fully-memorized"

\* The four statuses the UI offers.
Statuses == {ToLearn, OnceChecked, TwiceChecked, FullyMemorized}
\* update_flashcard_status takes new_status: str; "archived" stands for any
\* string that is none of the four.
StatusInputs == Statuses \cup {"archived"}

\* The users who call FlashcardDB.
Users == {"u1", "u2"}
\* The users who add cards in the lifecycle specification.
Owners == {"u1"}
Contents == {"Guten Tag"}
CardIds == 1..MaxCards
\* Hours by which the clock advances between two calls.
TickSteps == {23, 24}

Min(a, b) == IF a <= b THEN a ELSE b

(* ------------------------------ the table ----------------------------- *)

\* Mutant of NewRow: next_review_at is left to the column default.
NewRow_NoReviewTime(id, user_id, content, now) ==
    [id |-> id,
     user_id |-> user_id,
     content |-> content,
     status |-> ToLearn,
     created_at |-> now,
     last_checked_at |-> NULL,
     status_once_checked_at |-> NULL,
     status_twice_checked_at |-> NULL,
     status_fully_memorized_at |-> NULL,
     next_review_at |-> NULL]

\* The row add_flashcard inserts: the four columns of its data dict, the id
\* and created_at the database assigns, every other column NULL.
NewRow(id, user_id, content, now) ==
    [id |-> id,
     user_id |-> user_id,
     content |-> content,
     status |-> ToLearn,
     created_at |-> now,
     last_checked_at |-> NULL,
     status_once_checked_at |-> NULL,
     status_twice_checked_at |-> NULL,
     status_fully_memorized_at |-> NULL,
     next_review_at |-> now]

\* Mutant of OnceCheckedData: the delay of the twice-checked branch.
OnceCheckedData_TwoDays(new_status, now) ==
    [status |-> new_status,
     status_once_checked_at |-> now,
     last_checked_at |-> now,
     next_review_at |-> now + TwiceCheckedDelay]

\* Mutant of OnceCheckedData: the review is not recorded.
OnceCheckedData_NoLastChecked(new_status, now) ==
    [status |-> new_status,
     status_once_checked_at |-> now,
     next_review_at |-> now + OnceCheckedDelay]

\* The data dict of the branch new_status == "once-checked".
OnceCheckedData(new_status, now) ==
    [status |-> new_status,
     status_once_checked_at |-> now,
     last_checked_at |-> now,
     next_review_at |-> now + OnceCheckedDelay]

\* Mutant of TwiceCheckedData: the stamp of the status is not written.
TwiceCheckedData_NoStamp(new_status, now) ==
    [status |-> new_status,
     last_checked_at |-> now,
     next_review_at |-> now + TwiceCheckedDelay]

\* The data dict of the branch new_status == "twice-checked".
TwiceCheckedData(new_status, now) ==
    [status |-> new_status,
     status_twice_checked_at |-> now,
     last_checked_at |-> now,
     next_review_at |-> now + TwiceCheckedDelay]

\* Mutant of FullyMemorizedData: the card stays scheduled.
FullyMemorizedData_DueNow(new_status, now) ==
    [status |-> new_status,
     status_fully_memorized_at |-> now,
     last_checked_at |-> now,
     next_review_at |-> now]

\* The data dict of the branch new_status == "fully-memorized".
FullyMemorizedData(new_status, now) ==
    [status |-> new_status,
     status_fully_memorized_at |-> now,
     last_checked_at |-> now,
     next_review_at |-> NULL]

\* Mutant of ToLearnData: a reset clears the schedule.
ToLearnData_NoReview(new_status, now) ==
    [status |-> new_status,
     last_checked_at |-> now,
     next_review_at |-> NULL]

\* Mutant of ToLearnData: a reset does not count as a review.
ToLearnData_NoLastChecked(new_status, now) ==
    [status |-> new_status,
     next_review_at |-> now]

\* The data dict of the else branch ("to-learn", and any other string).
ToLearnData(new_status, now) ==
    [status |-> new_status,
     last_checked_at |-> now,
     next_review_at |-> now]

\* The data dict update_flashcard_status builds for new_status at now.
UpdateData(new_status, now) ==
    IF new_status = OnceChecked THEN OnceCheckedData(new_status, now)
    ELSE IF new_status = TwiceChecked THEN TwiceCheckedData(new_status, now)
    ELSE IF new_status = FullyMemorized THEN FullyMemorizedData(new_status, now)
    ELSE ToLearnData(new_status, now)

\* The three columns that record when a status was entered.
StampColumns == {"status_once_checked_at", "status_twice_checked_at",
                 "status_fully_memorized_at"}

\* Mutant of ApplyUpdate: the stamps data does not name are cleared.
ApplyUpdate_ClearStamps(row, data) ==
    [col \in DOMAIN row |-> IF col \in DOMAIN data THEN data[col]
                            ELSE IF col \in StampColumns THEN NULL
                            ELSE row[col]]

\* table.update(data): the columns data names are overwritten, the others kept.
ApplyUpdate(row, data) ==
    [col \in DOMAIN row |-> IF col \in DOMAIN data THEN data[col] ELSE row[col]]

\* .eq("id", flashcard_id): the rows a query by id matches, as response.data.
SelectById(table, id) ==
    IF id \in DOMAIN table THEN <<table[id]>> ELSE <<>>

\* Mutant of Lte: .lt instead of .lte.
Lte_Strict(column, value) == column # NULL /\ column < value

\* .lte(column, value): SQL comparison, never true of a NULL column.
Lte(column, value) == column # NULL /\ column <= value

\* Mutant of IsDue: the .eq("user_id", user_id) filter is missing.
IsDue_AnyOwner(row, user_id, now) ==
    /\ row.status # FullyMemorized
    /\ Lte(row.next_review_at, now)

\* The filters of get_due_flashcards: owner, not fully memorized, due by now.
IsDue(row, user_id, now) ==
    /\ row.user_id = user_id
    /\ row.status # FullyMemorized
    /\ Lte(row.next_review_at, now)

DueIds(table, user_id, now) ==
    {id \in DOMAIN table : IsDue(table[id], user_id, now)}

\* .order("next_review_at"): ascending; the order of rows with equal
\* next_review_at is not fixed by the query.
OrderedBy(table, seq) ==
    \A i, j \in DOMAIN seq :
        i < j => table[seq[i]].next_review_at <= table[seq[j]].next_review_at

Orderings(table, ids) ==
    {seq \in [1..Cardinality(ids) -> ids] :
        /\ \A i, j \in DOMAIN seq : i # j => seq[i] # seq[j]
        /\ OrderedBy(table, seq)}

\* .limit(limit)
Limit(seq, limit) == SubSeq(seq, 1, Min(limit, Len(seq)))

\* Every response.data the get_due_flashcards query can produce.
DueResults(table, user_id, now, limit) ==
    {Limit([i \in DOMAIN seq |-> table[seq[i]]], limit) :
        seq \in Orderings(table, DueIds(table, user_id, now))}

(* ------------------------------ responses ----------------------------- *)

\* What the last FlashcardDB call was and what it returned.  current is the
\* row update_flashcard_status reads before it writes; data is response.data
\* of the call's last query (the empty sequence where the code returns None,
\* False or []).
Response(op, user_id, id, new_status, limit, now, current, data) ==
    [op |-> op, user_id |-> user_id, id |-> id, new_status |-> new_status,
     limit |-> limit, now |-> now, current |-> current, data |-> data]

NoResponse == Response("none", "", 0, "", 0, 0, <<>>, <<>>)

(* ------------------------------- the chat ----------------------------- *)

\* Python None in a text column or in st.session_state.report.
None == "None"

\* What crew.kickoff can come to: a result with both task outputs, a result
\* of a shape none of the three branches knows, a result whose outputs
\* cannot be read (the extraction raises), or an exception.
Completed == "completed"
Unrecognised == "unrecognised"
Malformed == "malformed"
Raised == "raised"
Outcomes == {Completed, Unrecognised, Malformed, Raised}

Queries == {"Wie geht's?"}
\* The summary argument of a save_chat call: a text, or left at its default.
ToolSummaries == {"summary", None}

\* The conversation and report run_tutoring_session extracts from the result.
Extracted(outcome) ==
    CASE outcome = Completed ->
            [conversation |-> "tutor_task.output", report |-> "analyst_task.output"]
      [] outcome = Unrecognised ->
            [conversation |-> "str(result)",
             report |-> "Unable to generate report due to output format change."]
      [] OTHER ->
            [conversation |-> "Error extracting conversation",
             report |-> "Unable to generate report due to error."]

\* The text process_chat puts in the chat when it catches an exception.
Diagnostic == "An error occurred. Please try again later."

\* A row of chat_history.
ChatRow(id, user_id, conversation, summary, now) ==
    [id |-> id, user_id |-> user_id, conversation |-> conversation,
     summary |-> summary, created_at |-> now]

\* table.insert(row) for each row of a sequence, ids assigned serially from
\* first.
InsertAll(table, first, rows) ==
    [id \in DOMAIN table \cup (first..(first + Len(rows) - 1)) |->
        IF id \in DOMAIN table THEN table[id]
        ELSE [rows[id - first + 1] EXCEPT !.id = id]]

\* What the last call of the chat page was.
Session(op, user_id, id, outcome, tool_saves, result) ==
    [op |-> op, user_id |-> user_id, id |-> id, outcome |-> outcome,
     tool_saves |-> tool_saves, result |-> result]

NoSession == Session("none", "", 0, "", 0, <<>>)

\* The browser sessions of the two-session specification.
Sessions == {"s1", "s2"}

\* A call of update_flashcard_status that has read the clock and has not
\* sent its update yet (the row its select reads is not used); shown is the
\* card as the page that was clicked shows it, if a page of tab1 was clicked.
Call(id, new_status, now, shown) ==
    [id |-> id, new_status |-> new_status, now |-> now, shown |-> shown]

NoCall == Call(0, "", 0, <<>>)

InitSessions ==
    /\ pages = [s \in Sessions |-> <<>>]
    /\ pending = [s \in Sessions |-> NoCall]

InitChat ==
    /\ chat_history = <<>>
    /\ next_chat_id = 1
    /\ chat_messages = <<>>
    /\ report = None
    /\ kickoffs = 0
    /\ session = NoSession

(* ------------------------------- actions ------------------------------ *)

Init ==
    /\ flashcards = <<>>
    /\ next_id = 1
    /\ clock = 0
    /\ response = NoResponse
    /\ InitChat
    /\ InitSessions

\* FlashcardDB.add_flashcard(user_id, content)
AddFlashcard(user_id, content) ==
    /\ LET row == NewRow(next_id, user_id, content, clock) IN
        /\ flashcards' = [id \in DOMAIN flashcards \cup {next_id} |->
                            IF id = next_id THEN row ELSE flashcards[id]]
        /\ response' = Response("add", user_id, next_id, "", 0, clock, <<>>, <<row>>)
    /\ next_id' = next_id + 1
    /\ UNCHANGED clock
    /\ UNCHANGED chat_vars
    /\ UNCHANGED session_vars

\* FlashcardDB.get_due_flashcards(user_id, limit)
GetDueFlashcards(user_id, limit) ==
    /\ \E data \in DueResults(flashcards, user_id, clock, limit) :
        response' = Response("get_due", user_id, 0, "", limit, clock, <<>>, data)
    /\ UNCHANGED <<flashcards, next_id, clock>>
    /\ UNCHANGED chat_vars
    /\ UNCHANGED session_vars

\* .eq("user_id", user_id) of get_flashcards: the ids of the user's rows.
OwnedIds(table, user_id) == {id \in DOMAIN table : table[id].user_id = user_id}

\* .order("created_at", desc=True): descending; the order of rows with equal
\* created_at is not fixed by the query.
ListResults(table, user_id) ==
    LET ids == OwnedIds(table, user_id) IN
    {[i \in DOMAIN seq |-> table[seq[i]]] :
        seq \in {q \in [1..Cardinality(ids) -> ids] :
                    /\ \A i, j \in DOMAIN q : i # j => q[i] # q[j]
                    /\ \A i, j \in DOMAIN q :
                            i < j => table[q[i]].created_at >= table[q[j]].created_at}}

\* FlashcardDB.get_flashcards(user_id)
GetFlashcards(user_id) ==
    /\ \E data \in ListResults(flashcards, user_id) :
        response' = Response("list", user_id, 0, "", 0, clock, <<>>, data)
    /\ UNCHANGED <<flashcards, next_id, clock>>
    /\ UNCHANGED chat_vars
    /\ UNCHANGED session_vars

\* The position of a status in the progression.
StageRank(status) ==
    CASE status = OnceChecked -> 1
      [] status = TwiceChecked -> 2
      [] status = FullyMemorized -> 3
      [] OTHER -> 0

\* Mutant of UpdateFlashcardStatus: a transition that skips a stage is
\* refused (nothing written, None returned).
UpdateFlashcardStatus_NoSkip(flashcard_id, new_status) ==
    LET now == clock
        current == SelectById(flashcards, flashcard_id)
        allowed == /\ current # <<>>
                   /\ StageRank(new_status) <= StageRank(current[1].status) + 1
        data == UpdateData(new_status, now)
        table == [id \in DOMAIN flashcards |->
                    IF id = flashcard_id /\ allowed
                    THEN ApplyUpdate(flashcards[id], data)
                    ELSE flashcards[id]]
    IN  /\ flashcards' = table
        /\ response' = Response("update", "", flashcard_id, new_status, 0, now,
                                current,
                                IF allowed THEN SelectById(table, flashcard_id) ELSE <<>>)
        /\ UNCHANGED <<next_id, clock>>
        /\ UNCHANGED chat_vars
        /\ UNCHANGED session_vars

\* Mutant of UpdateFlashcardStatus: an upsert, which inserts the row when no
\* row has the id.
UpdateFlashcardStatus_Upsert(flashcard_id, new_status) ==
    LET now == clock
        current == SelectById(flashcards, flashcard_id)
        data == UpdateData(new_status, now)
        table == [id \in DOMAIN flashcards \cup {flashcard_id} |->
                    IF id # flashcard_id THEN flashcards[id]
                    ELSE IF id \in DOMAIN flashcards THEN ApplyUpdate(flashcards[id], data)
                    ELSE ApplyUpdate(NewRow(id, "", "", now), data)]
    IN  /\ flashcards' = table
        /\ response' = Response("update", "", flashcard_id, new_status, 0, now,
                                current, SelectById(table, flashcard_id))
        /\ UNCHANGED <<next_id, clock>>
        /\ UNCHANGED chat_vars
        /\ UNCHANGED session_vars

\* Mutant of UpdateFlashcardStatus: the update has no .eq("id", flashcard_id)
\* filter and writes every row.
UpdateFlashcardStatus_AllRows(flashcard_id, new_status) ==
    LET now == clock
        current == SelectById(flashcards, flashcard_id)
        data == UpdateData(new_status, now)
        table == [id \in DOMAIN flashcards |-> ApplyUpdate(flashcards[id], data)]
    IN  /\ flashcards' = table
        /\ response' = Response("update", "", flashcard_id, new_status, 0, now,
                                current, SelectById(table, flashcard_id))
        /\ UNCHANGED <<next_id, clock>>
        /\ UNCHANGED chat_vars
        /\ UNCHANGED session_vars

\* FlashcardDB.update_flashcard_status(flashcard_id, new_status)
UpdateFlashcardStatus(flashcard_id, new_status) ==
    LET now == clock
        current == SelectById(flashcards, flashcard_id)
        data == UpdateData(new_status, now)
        table == [id \in DOMAIN flashcards |->
                    IF id = flashcard_id THEN ApplyUpdate(flashcards[id], data)
                    ELSE flashcards[id]]
    IN  /\ flashcards' = table
        /\ response' = Response("update", "", flashcard_id, new_status, 0, now,
                                current, SelectById(table, flashcard_id))
        /\ UNCHANGED <<next_id, clock>>
        /\ UNCHANGED chat_vars
        /\ UNCHANGED session_vars

\* FlashcardDB.delete_flashcard(flashcard_id)
DeleteFlashcard(flashcard_id) ==
    /\ flashcards' = [id \in DOMAIN flashcards \ {flashcard_id} |-> flashcards[id]]
    /\ response' = Response("delete", "", flashcard_id, "", 0, clock, <<>>,
                            SelectById(flashcards, flashcard_id))
    /\ UNCHANGED <<next_id, clock>>
    /\ UNCHANGED chat_vars
    /\ UNCHANGED session_vars

\* Wall-clock time passes between two calls.
Tick(hours) ==
    /\ clock' = clock + hours
    /\ UNCHANGED <<flashcards, next_id, response>>
    /\ UNCHANGED chat_vars
    /\ UNCHANGED session_vars

Next ==
    \/ \E user_id \in Owners, content \in Contents :
            next_id <= MaxCards /\ AddFlashcard(user_id, content)
    \/ \E user_id \in Users : GetDueFlashcards(user_id, DefaultLimit)
    \/ \E id \in CardIds, new_status \in StatusInputs : UpdateFlashcardStatus(id, new_status)
    \/ \E id \in CardIds : DeleteFlashcard(id)
    \/ \E hours \in TickSteps : clock + hours <= MaxClock /\ Tick(hours)

Spec == Init /\ [][Next]_vars

(* ------------------- the selector on drawn card tables ---------------- *)

\* A row as add_flashcard leaves it at hour t, or as a later
\* update_flashcard_status(id, "fully-memorized") leaves it.
DrawnRows(id) ==
    LET fresh == {NewRow(id, user_id, content, t) :
                    user_id \in Users, content \in Contents, t \in 0..MaxDue}
    IN  fresh \cup {ApplyUpdate(row, UpdateData(FullyMemorized, row.created_at)) :
                        row \in {r \in fresh : r.created_at = 0}}

InitDue ==
    /\ flashcards \in {table \in [1..MaxDueCards -> UNION {DrawnRows(id) : id \in 1..MaxDueCards}] :
                            \A id \in 1..MaxDueCards : table[id].id = id}
    /\ next_id = MaxDueCards + 1
    /\ clock \in 0..MaxDue
    /\ response = NoResponse
    /\ InitChat
    /\ InitSessions

NextDue ==
    \E user_id \in Users, limit \in 0..MaxLimit : GetDueFlashcards(user_id, limit)

SpecDue == InitDue /\ [][NextDue]_vars

(* ----------------------------- the chat page -------------------------- *)

\* Number of messages the user submits in the chat specification.
MaxMessages == 1
\* Number of save_chat calls the analyst makes in one session.
MaxToolSaves == 1

\* The summaries of the save_chat calls of one session, in order.
ToolSaves == UNION {[1..n -> ToolSummaries] : n \in 0..MaxToolSaves}
ChatIds == 1..(MaxMessages * (MaxToolSaves + 1))

\* display_chat_page when the user submits user_query: the message is
\* appended and process_chat runs the session once.  During crew.kickoff the
\* analyst calls its save_chat tool Len(saves) times; run_tutoring_session
\* then inserts its own row unless kickoff raised, and process_chat appends
\* the conversation, or the diagnostic if an exception reached it.
SubmitMessage(user_id, user_query, outcome, saves) ==
    LET extracted == Extracted(outcome)
        tool_rows == [i \in DOMAIN saves |->
                        ChatRow(0, user_id, "save_chat conversation", saves[i], clock)]
        chat_data == IF outcome = Raised THEN <<>>
                     ELSE <<ChatRow(0, user_id, extracted.conversation,
                                    extracted.report, clock)>>
        rows == tool_rows \o chat_data
    IN  /\ kickoffs' = kickoffs + 1
        /\ chat_history' = InsertAll(chat_history, next_chat_id, rows)
        /\ next_chat_id' = next_chat_id + Len(rows)
        /\ chat_messages' = chat_messages \o
                <<[role |-> "user", content |-> user_query],
                  IF outcome = Raised
                  THEN [role |-> "system", content |-> Diagnostic]
                  ELSE [role |-> "assistant", content |-> extracted.conversation]>>
        /\ report' = IF outcome = Raised THEN report ELSE extracted.report
        /\ session' = Session("process_chat", user_id, 0, outcome, Len(saves),
                              IF outcome = Raised THEN <<>> ELSE <<extracted>>)
        /\ UNCHANGED card_vars
        /\ UNCHANGED session_vars

\* Mutant of DeleteChat: the delete has no .eq("user_id", user_id) filter.
DeleteChat_AnyOwner(chat_id, user_id) ==
    LET data == IF chat_id \in DOMAIN chat_history
                THEN <<chat_history[chat_id]>> ELSE <<>>
    IN  /\ chat_history' = [id \in DOMAIN chat_history \ {data[i].id : i \in DOMAIN data} |->
                                chat_history[id]]
        /\ session' = Session("delete_chat", user_id, chat_id, "", 0, data)
        /\ UNCHANGED <<next_chat_id, chat_messages, report, kickoffs>>
        /\ UNCHANGED card_vars
        /\ UNCHANGED session_vars

\* delete_chat(chat_id, user_id)
DeleteChat(chat_id, user_id) ==
    LET data == IF chat_id \in DOMAIN chat_history
                   /\ chat_history[chat_id].user_id = user_id
                THEN <<chat_history[chat_id]>> ELSE <<>>
    IN  /\ chat_history' = [id \in DOMAIN chat_history \ {data[i].id : i \in DOMAIN data} |->
                                chat_history[id]]
        /\ session' = Session("delete_chat", user_id, chat_id, "", 0, data)
        /\ UNCHANGED <<next_chat_id, chat_messages, report, kickoffs>>
        /\ UNCHANGED card_vars
        /\ UNCHANGED session_vars

NextChat ==
    \/ \E user_id \in Owners, content \in Contents :
            next_id <= MaxCards /\ AddFlashcard(user_id, content)
    \/ \E user_id \in Users, user_query \in Queries, outcome \in Outcomes, saves \in ToolSaves :
            kickoffs < MaxMessages /\ SubmitMessage(user_id, user_query, outcome, saves)
    \/ \E chat_id \in ChatIds, user_id \in Users : DeleteChat(chat_id, user_id)

SpecChat == Init /\ [][NextChat]_vars

(* ------------------------ the store of two cards ---------------------- *)

\* Number of cards ever inserted in the store specification.
MaxStoreCards == 2
StoreIds == 1..MaxStoreCards

NextStore ==
    \/ \E user_id \in Owners, content \in Contents :
            next_id <= MaxStoreCards /\ AddFlashcard(user_id, content)
    \/ \E user_id \in Users : GetDueFlashcards(user_id, DefaultLimit)
    \/ \E user_id \in Users : GetFlashcards(user_id)
    \/ \E id \in StoreIds, new_status \in Statuses : UpdateFlashcardStatus(id, new_status)
    \/ \E id \in StoreIds : DeleteFlashcard(id)
    \/ clock + OnceCheckedDelay <= MaxClock /\ Tick(OnceCheckedDelay)

SpecStore == Init /\ [][NextStore]_vars

(* ------------------------- the Due for Review tab --------------------- *)

\* Number of cards ever inserted in the review specifications.
MaxReviewCards == 1
\* Last hour the clock may reach in the review specifications.
MaxReviewClock == 72

\* What render_flashcard puts in the second column above the delete button.
\* Mutant of Button: every status button marks the card as memorized.
Button_Memorized(new_status) ==
    [kind |-> "button", new_status |-> FullyMemorized, hours_left |-> 0]

Button(new_status) == [kind |-> "button", new_status |-> new_status, hours_left |-> 0]
HoursLeft(hours) == [kind |-> "hours_left", new_status |-> "", hours_left |-> hours]
NoWidget == [kind |-> "none", new_status |-> "", hours_left |-> 0]

\* Mutant of Widget: the once-checked branch waits 48 hours as well.
Widget_TwoDays(flashcard, now) ==
    LET current_status == flashcard.status IN
    IF current_status = ToLearn THEN Button(OnceChecked)
    ELSE IF current_status = OnceChecked THEN
        IF flashcard.status_once_checked_at # NULL THEN
            LET time_passed == now - flashcard.status_once_checked_at IN
            IF time_passed >= TwiceCheckedDelay THEN Button(TwiceChecked)
            ELSE HoursLeft(TwiceCheckedDelay - time_passed)
        ELSE NoWidget
    ELSE IF current_status = TwiceChecked THEN
        IF flashcard.status_twice_checked_at # NULL THEN
            LET time_passed == now - flashcard.status_twice_checked_at IN
            IF time_passed >= TwiceCheckedDelay THEN Button(FullyMemorized)
            ELSE HoursLeft(TwiceCheckedDelay - time_passed)
        ELSE NoWidget
    ELSE NoWidget

\* render_flashcard(flashcard, ...) at time now: the status branch.
Widget(flashcard, now) ==
    LET current_status == flashcard.status IN
    IF current_status = ToLearn THEN Button(OnceChecked)
    ELSE IF current_status = OnceChecked THEN
        IF flashcard.status_once_checked_at # NULL THEN
            LET time_passed == now - flashcard.status_once_checked_at IN
            IF time_passed >= OnceCheckedDelay THEN Button(TwiceChecked)
            ELSE HoursLeft(OnceCheckedDelay - time_passed)
        ELSE NoWidget
    ELSE IF current_status = TwiceChecked THEN
        IF flashcard.status_twice_checked_at # NULL THEN
            LET time_passed == now - flashcard.status_twice_checked_at IN
            IF time_passed >= TwiceCheckedDelay THEN Button(FullyMemorized)
            ELSE HoursLeft(TwiceCheckedDelay - time_passed)
        ELSE NoWidget
    ELSE NoWidget

\* The loop of tab1: render_flashcard for each card of due_cards.
RenderedTab(due_cards, now) ==
    [i \in DOMAIN due_cards |->
        [card |-> due_cards[i], widget |-> Widget(due_cards[i], now)]]

\* A run of tab1: get_due_flashcards(user_id), then render_flashcard for
\* each card returned.  data holds each card with its widget.
RenderDueTab(user_id) ==
    /\ \E due_cards \in DueResults(flashcards, user_id, clock, DefaultLimit) :
        response' = Response("due_tab", user_id, 0, "", DefaultLimit, clock, <<>>,
                             RenderedTab(due_cards, clock))
    /\ UNCHANGED <<flashcards, next_id, clock>>
    /\ UNCHANGED chat_vars
    /\ UNCHANGED session_vars

\* Mutant of ClickUpdate: every status button marks the card as memorized.
ClickUpdate_Memorize ==
    /\ response.op = "due_tab"
    /\ \E i \in DOMAIN response.data :
        /\ response.data[i].widget.kind = "button"
        /\ UpdateFlashcardStatus(response.data[i].card.id, FullyMemorized)

\* A click on the status button of a card of the rendered tab: on_update.
ClickUpdate ==
    /\ response.op = "due_tab"
    /\ \E i \in DOMAIN response.data :
        /\ response.data[i].widget.kind = "button"
        /\ UpdateFlashcardStatus(response.data[i].card.id,
                                 response.data[i].widget.new_status)

\* A click on the delete button of a card of the rendered tab: on_delete.
ClickDelete ==
    /\ response.op = "due_tab"
    /\ \E i \in DOMAIN response.data : DeleteFlashcard(response.data[i].card.id)

\* The Due for Review tab next to the All Flashcards tab, where any of the
\* four statuses can be given to any card.
NextReview ==
    \/ \E user_id \in Owners, content \in Contents :
            next_id <= MaxReviewCards /\ AddFlashcard(user_id, content)
    \/ \E user_id \in Owners : RenderDueTab(user_id)
    \/ ClickUpdate
    \/ ClickDelete
    \/ \E id \in DOMAIN flashcards, new_status \in Statuses :
            UpdateFlashcardStatus(id, new_status)
    \/ \E hours \in TickSteps : clock + hours <= MaxReviewClock /\ Tick(hours)

SpecReview == Init /\ [][NextReview]_vars

\* The Due for Review tab alone.
NextDueTab ==
    \/ \E user_id \in Owners, content \in Contents :
            next_id <= MaxReviewCards /\ AddFlashcard(user_id, content)
    \/ \E user_id \in Owners : RenderDueTab(user_id)
    \/ ClickUpdate
    \/ ClickDelete
    \/ \E hours \in TickSteps : clock + hours <= MaxReviewClock /\ Tick(hours)

SpecDueTab == Init /\ [][NextDueTab]_vars

(* ------------------- two sessions on the Due for Review tab ----------- *)

\* Number of cards ever inserted in the two-session specification.
MaxSessionCards == 1
\* Last hour the clock may reach in the two-session specification.
MaxSessionClock == 48

\* A run of tab1 in session s.
SessionRender(s, user_id) ==
    /\ pending[s] = NoCall
    /\ \E due_cards \in DueResults(flashcards, user_id, clock, DefaultLimit) :
        /\ pages' = [pages EXCEPT ![s] = RenderedTab(due_cards, clock)]
        /\ response' = Response("due_tab", user_id, 0, "", DefaultLimit, clock, <<>>,
                                RenderedTab(due_cards, clock))
    /\ UNCHANGED <<flashcards, next_id, clock, pending>>
    /\ UNCHANGED chat_vars

\* A click on a status button of the page session s shows: on_update calls
\* update_flashcard_status, which reads the clock.
SessionClick(s) ==
    /\ pending[s] = NoCall
    /\ \E i \in DOMAIN pages[s] :
        /\ pages[s][i].widget.kind = "button"
        /\ pending' = [pending EXCEPT ![s] =
                        Call(pages[s][i].card.id, pages[s][i].widget.new_status, clock,
                             <<pages[s][i].card>>)]
    /\ UNCHANGED <<flashcards, next_id, clock, response, pages>>
    /\ UNCHANGED chat_vars

\* Mutant of SessionWrite: the status is sent in an update of its own, before
\* the update of the other columns.
SessionWrite_StatusFirst(s) ==
    /\ pending[s] # NoCall
    /\ LET call == pending[s]
           data == [status |-> call.new_status]
           table == [id \in DOMAIN flashcards |->
                        IF id = call.id THEN ApplyUpdate(flashcards[id], data)
                        ELSE flashcards[id]]
       IN  /\ flashcards' = table
           /\ response' = Response("update", "", call.id, call.new_status, 0, call.now,
                                   <<>>, SelectById(table, call.id))
    /\ pending' = [pending EXCEPT ![s] = NoCall]
    /\ pages' = [pages EXCEPT ![s] = <<>>]
    /\ UNCHANGED <<next_id, clock>>
    /\ UNCHANGED chat_vars

\* The update of the call of session s reaches the database: one UPDATE
\* statement with the data dict built from the clock the call read.  The
\* session then runs its script again, so its page is to be rendered anew.
SessionWrite(s) ==
    /\ pending[s] # NoCall
    /\ LET call == pending[s]
           data == UpdateData(call.new_status, call.now)
           table == [id \in DOMAIN flashcards |->
                        IF id = call.id THEN ApplyUpdate(flashcards[id], data)
                        ELSE flashcards[id]]
       IN  /\ flashcards' = table
           /\ response' = Response("update", "", call.id, call.new_status, 0, call.now,
                                   <<>>, SelectById(table, call.id))
    /\ pending' = [pending EXCEPT ![s] = NoCall]
    /\ pages' = [pages EXCEPT ![s] = <<>>]
    /\ UNCHANGED <<next_id, clock>>
    /\ UNCHANGED chat_vars

\* A click on the delete button of a card of the page session s shows:
\* on_delete calls delete_flashcard, one DELETE statement.
SessionDelete(s) ==
    /\ pending[s] = NoCall
    /\ \E i \in DOMAIN pages[s] :
        LET flashcard_id == pages[s][i].card.id IN
        /\ flashcards' = [id \in DOMAIN flashcards \ {flashcard_id} |-> flashcards[id]]
        /\ response' = Response("delete", "", flashcard_id, "", 0, clock, <<>>,
                                SelectById(flashcards, flashcard_id))
    /\ pages' = [pages EXCEPT ![s] = <<>>]
    /\ UNCHANGED <<next_id, clock, pending>>
    /\ UNCHANGED chat_vars

\* The "Update Status" button of tab2 in session s, for a card and a status
\* chosen in the two select boxes: update_flashcard_status reads the clock.
SessionUpdateStatus(s, flashcard_id, new_status) ==
    /\ pending[s] = NoCall
    /\ pending' = [pending EXCEPT ![s] =
                    Call(flashcard_id, new_status, clock, <<>>)]
    /\ UNCHANGED <<flashcards, next_id, clock, response, pages>>
    /\ UNCHANGED chat_vars

\* Two sessions of one user on the Due for Review tab.
NextSessionsDueTab ==
    \/ \E user_id \in Owners, content \in Contents :
            next_id <= MaxSessionCards /\ AddFlashcard(user_id, content)
    \/ \E s \in Sessions, user_id \in Owners : SessionRender(s, user_id)
    \/ \E s \in Sessions : SessionClick(s)
    \/ \E s \in Sessions : SessionWrite(s)
    \/ \E s \in Sessions : SessionDelete(s)
    \/ clock + OnceCheckedDelay <= MaxSessionClock /\ Tick(OnceCheckedDelay)

SpecSessionsDueTab == Init /\ [][NextSessionsDueTab]_vars

\* Two sessions of one user calling update_flashcard_status and
\* delete_flashcard, with any of the four statuses.
NextSessions ==
    \/ \E user_id \in Owners, content \in Contents :
            next_id <= MaxSessionCards /\ AddFlashcard(user_id, content)
    \/ \E s \in Sessions, id \in 1..MaxSessionCards, new_status \in Statuses :
            SessionUpdateStatus(s, id, new_status)
    \/ \E s \in Sessions : SessionWrite(s)
    \/ \E id \in 1..MaxSessionCards : DeleteFlashcard(id)
    \/ clock + OnceCheckedDelay <= MaxClock /\ Tick(OnceCheckedDelay)

SpecSessions == Init /\ [][NextSessions]_vars

(* --------------------------- the statistics --------------------------- *)

\* Number of cards of the collections the statistics specification draws.
MaxStatCards == 4

\* The weights of render_flashcard_stats, 0.33, 0.67 and 1, in hundredths.
OnceCheckedWeight == 33
TwiceCheckedWeight == 67
FullyMemorizedWeight == 100

\* Mutant of CountStatus: "once-checked" is matched as a substring
\* ("checked"), so twice-checked cards are counted as once-checked too.
CountStatus_Substring(table, ids, status) ==
    Cardinality({id \in ids :
        \/ table[id].status = status
        \/ status = OnceChecked /\ table[id].status = TwiceChecked})

\* sum(1 for card in flashcards if card["status"] == status)
CountStatus(table, ids, status) ==
    Cardinality({id \in ids : table[id].status = status})

\* Mutant of Progress: the weights are thirds rounded down (0.33, 0.66).
Progress_RoundedDown(total, once_checked, twice_checked, fully_memorized) ==
    IF total > 0
    THEN [num |-> once_checked * 33 + twice_checked * 66 + fully_memorized * 100,
          den |-> 100 * total]
    ELSE [num |-> 0, den |-> 1]

\* The progress expression, as the fraction num/den.
Progress(total, once_checked, twice_checked, fully_memorized) ==
    IF total > 0
    THEN [num |-> once_checked * OnceCheckedWeight
                    + twice_checked * TwiceCheckedWeight
                    + fully_memorized * FullyMemorizedWeight,
          den |-> 100 * total]
    ELSE [num |-> 0, den |-> 1]

\* What render_flashcard_stats shows for the cards ids of table: nothing but
\* a hint when there are none, else total, the four metrics and the progress
\* bar.  The sums do not depend on the order of the list.
FlashcardStats(table, ids) ==
    IF ids = {} THEN <<>>
    ELSE LET total == Cardinality(ids)
             to_learn == CountStatus(table, ids, ToLearn)
             once_checked == CountStatus(table, ids, OnceChecked)
             twice_checked == CountStatus(table, ids, TwiceChecked)
             fully_memorized == CountStatus(table, ids, FullyMemorized)
         IN  <<[total |-> total,
                to_learn |-> to_learn,
                once_checked |-> once_checked,
                twice_checked |-> twice_checked,
                fully_memorized |-> fully_memorized,
                progress |-> Progress(total, once_checked, twice_checked,
                                      fully_memorized)]>>

\* The statistics of the "Add New" tab: get_flashcards(user_id), then
\* render_flashcard_stats(all_cards).  response.data holds what is shown.
RenderFlashcardStats(user_id) ==
    /\ response' = Response("stats", user_id, 0, "", 0, clock, <<>>,
                            FlashcardStats(flashcards, OwnedIds(flashcards, user_id)))
    /\ UNCHANGED <<flashcards, next_id, clock>>
    /\ UNCHANGED chat_vars
    /\ UNCHANGED session_vars

\* A card of user_id as add_flashcard leaves it (kind "new") or as
\* update_flashcard_status(id, kind) leaves it, all at hour 0.
StatRow(id, user_id, kind) ==
    LET row == NewRow(id, user_id, CHOOSE content \in Contents : TRUE, 0)
    IN  IF kind = "new" THEN row ELSE ApplyUpdate(row, UpdateData(kind, 0))

InitStats ==
    /\ \E n \in 0..MaxStatCards :
        \E pick \in [1..n -> Users \X ({"new"} \cup Statuses)] :
            flashcards = [id \in 1..n |-> StatRow(id, pick[id][1], pick[id][2])]
    /\ next_id = Cardinality(DOMAIN flashcards) + 1
    /\ clock = 0
    /\ response = NoResponse
    /\ InitChat
    /\ InitSessions

NextStats == \E user_id \in Users : RenderFlashcardStats(user_id)

SpecStats == InitStats /\ [][NextStats]_vars

(* ------------------------- helpers of the claims ---------------------- *)

\* The last call was update_flashcard_status on a card that existed.
UpdatedExisting == response.op = "update" /\ response.current # <<>>

\* The ids of the rows a call returned.
ReturnedIds == {response.data[i].id : i \in DOMAIN response.data}

\* Every list get_due_flashcards can return now to the owner of card id.
DueListsOfOwner(id) ==
    DueResults(flashcards, flashcards[id].user_id, clock, DefaultLimit)

InList(id, data) == \E i \in DOMAIN data : data[i].id = id

(* -------------------------------- C1 ---------------------------------- *)

\* C1: a transition requested to once-checked (twice-checked) at hour now
\* leaves the card, whatever it was before, with that status, the entry
\* timestamp of that status = now, last_checked_at = now and
\* next_review_at = now + 24 (now + 48).
C1_CheckedTransitionFields ==
    UpdatedExisting =>
        LET card == flashcards[response.id]
            now == response.now
        IN  /\ response.new_status = OnceChecked =>
                /\ card.status = OnceChecked
                /\ card.status_once_checked_at = now
                /\ card.last_checked_at = now
                /\ card.next_review_at = now + 24
            /\ response.new_status = TwiceChecked =>
                /\ card.status = TwiceChecked
                /\ card.status_twice_checked_at = now
                /\ card.last_checked_at = now
                /\ card.next_review_at = now + 48

\* A fully memorized card moved to twice-checked after the clock advanced.
C1_Witness ==
    /\ UpdatedExisting
    /\ response.new_status = TwiceChecked
    /\ response.current[1].status = FullyMemorized
    /\ response.now > 0
    /\ flashcards[response.id].next_review_at = response.now + 48

(* -------------------------------- C2 ---------------------------------- *)

\* C2: a card moved to fully-memorized has next_review_at NULL and, while
\* it stays fully memorized, no get_due_flashcards call returns it, at the
\* hour of the transition or any later hour.
C2_FullyMemorizedNeverDue ==
    /\ \A id \in DOMAIN flashcards :
        flashcards[id].status = FullyMemorized =>
            /\ flashcards[id].next_review_at = NULL
            /\ \A data \in DueListsOfOwner(id) : ~InList(id, data)
    /\ response.op = "get_due" =>
        \A i \in DOMAIN response.data : response.data[i].status # FullyMemorized

\* The owner of a fully memorized card asked for the due cards hours after
\* the transition.
C2_Witness ==
    \E id \in DOMAIN flashcards :
        /\ flashcards[id].status = FullyMemorized
        /\ response.op = "get_due"
        /\ response.user_id = flashcards[id].user_id
        /\ response.now > flashcards[id].last_checked_at
        /\ response.data = <<>>

(* -------------------------------- C3 ---------------------------------- *)

\* C3: in every reachable state every stored card whose status is not
\* fully-memorized has a non-NULL next_review_at.
C3_NextReviewNonNull ==
    \A id \in DOMAIN flashcards :
        flashcards[id].status # FullyMemorized => flashcards[id].next_review_at # NULL

\* A card that was fully memorized (next_review_at NULL) was reset to to-learn.
C3_Witness ==
    /\ UpdatedExisting
    /\ response.current[1].next_review_at = NULL
    /\ response.new_status = ToLearn
    /\ flashcards[response.id].next_review_at = response.now

(* -------------------------------- C4 ---------------------------------- *)

\* The cards of user_id that are due at now, as the claim words it.
DueCardsOf(user_id, now) ==
    {id \in DOMAIN flashcards :
        /\ flashcards[id].user_id = user_id
        /\ flashcards[id].status # FullyMemorized
        /\ flashcards[id].next_review_at # NULL
        /\ flashcards[id].next_review_at <= now}

\* C4: for every owner, card table, now and limit >= 0, get_due_flashcards
\* returns only stored cards of that owner that are due, each at most once;
\* the list has length min(limit, number of due cards), is sorted ascending
\* by next_review_at, and no omitted due card has an earlier next_review_at
\* than a returned one.
C4_DueSelection ==
    response.op = "get_due" =>
        LET data == response.data
            due == DueCardsOf(response.user_id, response.now)
        IN  /\ \A i \in DOMAIN data :
                data[i].id \in due /\ data[i] = flashcards[data[i].id]
            /\ \A i, j \in DOMAIN data : i # j => data[i].id # data[j].id
            /\ Len(data) = Min(response.limit, Cardinality(due))
            /\ \A i, j \in DOMAIN data :
                i < j => data[i].next_review_at <= data[j].next_review_at
            /\ \A id \in due \ ReturnedIds : \A i \in DOMAIN data :
                ~(flashcards[id].next_review_at < data[i].next_review_at)

\* The limit cut a due card off while another owner's card was stored.
C4_Witness ==
    /\ response.op = "get_due"
    /\ response.limit >= 1
    /\ Len(response.data) = response.limit
    /\ DueCardsOf(response.user_id, response.now) \ ReturnedIds # {}
    /\ \E id \in DOMAIN flashcards : flashcards[id].user_id # response.user_id

(* -------------------------------- C5 ---------------------------------- *)

\* C5: a card created at hour t has status to-learn and next_review_at = t,
\* a card reset to to-learn at hour t has next_review_at = t, and from then
\* until its next transition or deletion the card is due: every
\* get_due_flashcards call of its owner returns it unless the limit cuts
\* it off.
C5_ToLearnImmediatelyDue ==
    /\ response.op = "add" =>
        /\ flashcards[response.id].status = ToLearn
        /\ flashcards[response.id].next_review_at = response.now
    /\ (UpdatedExisting /\ response.new_status = ToLearn) =>
        flashcards[response.id].next_review_at = response.now
    /\ \A id \in DOMAIN flashcards :
        flashcards[id].status = ToLearn =>
            /\ Cardinality(DueCardsOf(flashcards[id].user_id, clock)) <= DefaultLimit =>
                \A data \in DueListsOfOwner(id) : InList(id, data)
            /\ (/\ response.op = "get_due"
                /\ response.user_id = flashcards[id].user_id
                /\ Len(response.data) < response.limit) => id \in ReturnedIds

\* A card reset to to-learn was returned to its owner hours after the reset.
C5_Witness ==
    \E id \in DOMAIN flashcards :
        /\ flashcards[id].status = ToLearn
        /\ flashcards[id].last_checked_at # NULL
        /\ response.op = "get_due"
        /\ response.now > flashcards[id].last_checked_at
        /\ id \in ReturnedIds

(* -------------------------------- C6 ---------------------------------- *)

\* C6: after a transition to once-checked at hour t0 and no further
\* transition, get_due_flashcards returns the card to its owner at no
\* now < t0 + 24 and at every now >= t0 + 24 (the limit permitting).
C6_OnceCheckedBoundary ==
    \A id \in DOMAIN flashcards :
        flashcards[id].status = OnceChecked =>
            LET t0 == flashcards[id].last_checked_at
                owner == flashcards[id].user_id
            IN  /\ clock < t0 + 24 =>
                    \A data \in DueListsOfOwner(id) : ~InList(id, data)
                /\ (clock >= t0 + 24 /\ Cardinality(DueCardsOf(owner, clock)) <= DefaultLimit) =>
                    \A data \in DueListsOfOwner(id) : InList(id, data)
                /\ (response.op = "get_due" /\ response.user_id = owner) =>
                    /\ response.now < t0 + 24 => id \notin ReturnedIds
                    /\ (response.now >= t0 + 24 /\ Len(response.data) < response.limit) =>
                        id \in ReturnedIds

\* The owner asked exactly 24 hours after the transition and got the card.
C6_Witness ==
    \E id \in DOMAIN flashcards :
        /\ flashcards[id].status = OnceChecked
        /\ response.op = "get_due"
        /\ response.now = flashcards[id].last_checked_at + 24
        /\ id \in ReturnedIds

(* -------------------------------- C7 ---------------------------------- *)

\* C7: a transition to any of the four statuses is accepted whatever the
\* card's current status (skips and resets included), and the resulting
\* status, last_checked_at, next_review_at and entry timestamp of the
\* requested status are fixed by the requested status and now alone.
C7_TransitionTotal ==
    (UpdatedExisting /\ response.new_status \in Statuses) =>
        LET card == flashcards[response.id]
            now == response.now
            s == response.new_status
        IN  /\ response.data = <<card>>
            /\ card.status = s
            /\ card.last_checked_at = now
            /\ card.next_review_at =
                CASE s = ToLearn -> now
                  [] s = OnceChecked -> now + 24
                  [] s = TwiceChecked -> now + 48
                  [] s = FullyMemorized -> NULL
            /\ s = OnceChecked => card.status_once_checked_at = now
            /\ s = TwiceChecked => card.status_twice_checked_at = now
            /\ s = FullyMemorized => card.status_fully_memorized_at = now

\* A card that had been fully memorized and reset went from to-learn
\* straight to fully-memorized.
C7_Witness ==
    /\ UpdatedExisting
    /\ response.current[1].status = ToLearn
    /\ response.current[1].status_fully_memorized_at # NULL
    /\ response.current[1].status_once_checked_at = NULL
    /\ response.new_status = FullyMemorized
    /\ flashcards[response.id].status = FullyMemorized

(* -------------------------------- C8 ---------------------------------- *)

\* C8: a transition whose requested status is none of the four is
\* rejected: nothing is returned, the stored card is left as it was, and no
\* stored card ever carries a status outside the four.
C8_UnknownStatusRejected ==
    /\ \A id \in DOMAIN flashcards : flashcards[id].status \in Statuses
    /\ (UpdatedExisting /\ response.new_status \notin Statuses) =>
        /\ response.data = <<>>
        /\ flashcards[response.id] = response.current[1]

(* -------------------------------- C9 ---------------------------------- *)

\* C9: due cards with the same next_review_at are returned in id order, so
\* the returned list is the only one the call can produce.
C9_TiesOrderedById ==
    response.op = "get_due" =>
        /\ \A i, j \in DOMAIN response.data :
            (i < j /\ response.data[i].next_review_at = response.data[j].next_review_at)
                => response.data[i].id < response.data[j].id
        /\ DueResults(flashcards, response.user_id, response.now, response.limit)
                = {response.data}

(* -------------------------------- C10 --------------------------------- *)

\* The last call repeated, at a later hour, the transition that had put the
\* card in its status.
RepeatedTransition ==
    /\ UpdatedExisting
    /\ response.new_status \in Statuses
    /\ response.current[1].status = response.new_status
    /\ response.current[1].last_checked_at # NULL
    /\ response.current[1].last_checked_at < response.now

\* Timestamp a is set and later than timestamp b.
Later(a, b) == a # NULL /\ b # NULL /\ a > b

\* C10 as stated: repeating a transition at a later hour makes both
\* last_checked_at and next_review_at later than after the first call.
C10_BothAdvance ==
    RepeatedTransition =>
        /\ Later(flashcards[response.id].last_checked_at,
                 response.current[1].last_checked_at)
        /\ Later(flashcards[response.id].next_review_at,
                 response.current[1].next_review_at)

\* C10 amended: repeating a transition at a later hour makes last_checked_at
\* later; next_review_at is later too unless the status is fully-memorized,
\* where it is NULL after both calls.
C10_AdvanceUnlessMemorized ==
    RepeatedTransition =>
        /\ Later(flashcards[response.id].last_checked_at,
                 response.current[1].last_checked_at)
        /\ IF response.new_status = FullyMemorized
           THEN /\ response.current[1].next_review_at = NULL
                /\ flashcards[response.id].next_review_at = NULL
           ELSE Later(flashcards[response.id].next_review_at,
                      response.current[1].next_review_at)

\* A once-checked card was marked once-checked again a day later.
C10_Witness ==
    /\ RepeatedTransition
    /\ response.new_status = OnceChecked
    /\ response.now = response.current[1].last_checked_at + 24

(* ------------------------------- C11 ---------------------------------- *)

\* The number of the cards of response.user_id whose status is status.
CardsInStage(status) ==
    Cardinality({id \in DOMAIN flashcards :
        flashcards[id].user_id = response.user_id /\ flashcards[id].status = status})

CardsOfUser ==
    Cardinality({id \in DOMAIN flashcards : flashcards[id].user_id = response.user_id})

\* The fraction shown equals (0.33 once + 0.67 twice + 1.0 memorized) / total.
RatioIsWeightedMean(progress) ==
    progress.num * (100 * CardsOfUser) =
        progress.den * (33 * CardsInStage(OnceChecked) + 67 * CardsInStage(TwiceChecked)
                           + 100 * CardsInStage(FullyMemorized))

OneCardPerStage == \A status \in Statuses : CardsInStage(status) = 1

CountsPartition(stats) ==
    /\ stats.to_learn = CardsInStage(ToLearn)
    /\ stats.once_checked = CardsInStage(OnceChecked)
    /\ stats.twice_checked = CardsInStage(TwiceChecked)
    /\ stats.fully_memorized = CardsInStage(FullyMemorized)
    /\ stats.to_learn + stats.once_checked + stats.twice_checked
            + stats.fully_memorized = CardsOfUser
    /\ stats.total = CardsOfUser

StampOf(new_status) ==
    CASE new_status = OnceChecked -> {"status_once_checked_at"}
      [] new_status = TwiceChecked -> {"status_twice_checked_at"}
      [] new_status = FullyMemorized -> {"status_fully_memorized_at"}
      [] OTHER -> {}

\* C13: a transition to status s leaves every status_*_at stamp other than
\* the one of s as it was, and a transition to to-learn leaves all three as
\* they were; the row in the table is the row returned.
C13_OtherStampsKept ==
    UpdatedExisting =>
        /\ \A col \in StampColumns \ StampOf(response.new_status) :
                response.data[1][col] = response.current[1][col]
        /\ response.id \in DOMAIN flashcards
        /\ flashcards[response.id] = response.data[1]

\* A card that was twice-checked and fully memorized at hour 0 and reset
\* re-enters once-checked at a later hour: the old stamps are still 0.
C13_Witness ==
    /\ UpdatedExisting
    /\ response.new_status = OnceChecked
    /\ response.current[1].status = ToLearn
    /\ response.now > 0
    /\ response.current[1].status_twice_checked_at = 0
    /\ response.current[1].status_fully_memorized_at = 0
    /\ response.data[1].status_twice_checked_at = 0
    /\ response.data[1].status_fully_memorized_at = 0
    /\ response.data[1].status_once_checked_at = response.now

\* The columns add_flashcard and the database set at insertion.
CreationColumns == {"id", "user_id", "content", "created_at"}

\* C14: no call changes the id, user_id, content or created_at of a stored
\* card, and an update or delete addressed to one id leaves every other
\* card in the table with all its columns as they were.
C14_CreationColumnsAndOtherCardsKept ==
    [][/\ \A id \in DOMAIN flashcards \cap DOMAIN flashcards' :
            \A col \in CreationColumns : flashcards'[id][col] = flashcards[id][col]
       /\ response'.op \in {"update", "delete"} =>
            \A id \in DOMAIN flashcards \ {response'.id} :
                id \in DOMAIN flashcards' /\ flashcards'[id] = flashcards[id]]_vars

\* Card 1, created at hour 0, is updated a day later while card 2 waits as
\* twice-checked: card 1 still has its creation columns, card 2 its status.
C14_Witness ==
    /\ UpdatedExisting
    /\ response.id = 1
    /\ response.new_status = FullyMemorized
    /\ response.now = OnceCheckedDelay
    /\ DOMAIN flashcards = {1, 2}
    /\ flashcards[1].created_at = 0
    /\ flashcards[1].status = FullyMemorized
    /\ flashcards[2].status = TwiceChecked
    /\ flashcards[2].last_checked_at = 0

\* The ids the database has assigned so far.
AssignedIds == 1..(next_id - 1)

\* C15: update_flashcard_status on an id that is not in the table returns
\* None and delete_flashcard on such an id returns False, both leaving the
\* table as it was; an id that was deleted is never in the table again, and
\* get_flashcards and get_due_flashcards return stored cards only.  (A step
\* that leaves the clock is a call, and response' is its response.)
C15_NotFoundChangesNothing ==
    [][/\ (/\ clock' = clock
           /\ response'.op \in {"update", "delete"}
           /\ response'.id \notin DOMAIN flashcards) =>
            /\ response'.data = <<>>
            /\ flashcards' = flashcards
       /\ \A id \in AssignedIds \ DOMAIN flashcards : id \notin DOMAIN flashcards'
       /\ response'.op \in {"list", "get_due"} =>
            \A i \in DOMAIN response'.data :
                /\ response'.data[i].id \in DOMAIN flashcards
                /\ response'.data[i] = flashcards[response'.data[i].id]]_vars

\* Card 1 was deleted, card 2 is stored, and an update addressed to card 1
\* has just returned None.
C15_Witness ==
    /\ response.op = "update"
    /\ response.id = 1
    /\ response.current = <<>>
    /\ response.data = <<>>
    /\ DOMAIN flashcards = {2}
    /\ next_id = 3

\* The stamp render_flashcard reads and the delay it waits for a status.
WaitOf(row) ==
    IF row.status = OnceChecked
    THEN [stamp |-> row.status_once_checked_at, delay |-> OnceCheckedDelay]
    ELSE [stamp |-> row.status_twice_checked_at, delay |-> TwiceCheckedDelay]

\* C16: a once-checked card has next_review_at = status_once_checked_at + 24h
\* and a twice-checked card next_review_at = status_twice_checked_at + 48h;
\* so at any hour render_flashcard shows "hours left", with a positive wait
\* equal to next_review_at - now, exactly when the card is not due, and every
\* once- or twice-checked card the Due for Review tab lists has its button.
C16_DisplayMatchesEligibility ==
    /\ \A id \in DOMAIN flashcards :
        LET row == flashcards[id]
            wait == WaitOf(row)
            widget == Widget(row, clock)
        IN  row.status \in {OnceChecked, TwiceChecked} =>
                /\ wait.stamp # NULL
                /\ row.next_review_at = wait.stamp + wait.delay
                /\ widget.kind = "hours_left" <=> ~Lte(row.next_review_at, clock)
                /\ widget.kind = "button" <=> Lte(row.next_review_at, clock)
                /\ widget.kind = "hours_left" =>
                        /\ widget.hours_left > 0
                        /\ widget.hours_left = row.next_review_at - clock
    /\ response.op = "due_tab" =>
        \A i \in DOMAIN response.data :
            response.data[i].card.status \in {OnceChecked, TwiceChecked} =>
                response.data[i].widget.kind = "button"

\* The tab lists a card that became twice-checked exactly 48 hours ago, with
\* its "Mark as Memorized" button.
C16_Witness ==
    /\ response.op = "due_tab"
    /\ Len(response.data) = 1
    /\ response.data[1].card.status = TwiceChecked
    /\ response.data[1].card.status_once_checked_at = 0
    /\ response.data[1].card.status_twice_checked_at + TwiceCheckedDelay = response.now
    /\ response.data[1].widget = Button(FullyMemorized)

\* A once-checked card one hour before it is due: render_flashcard would
\* show "1 hours left", and the tab does not list the card.
C16_WitnessWaiting ==
    /\ response.op = "due_tab"
    /\ response.data = <<>>
    /\ response.now = clock
    /\ 1 \in DOMAIN flashcards
    /\ flashcards[1].status = OnceChecked
    /\ Widget(flashcards[1], clock) = HoursLeft(1)

\* C17: a card whose status changed only through the buttons of the Due for
\* Review tab (to-learn -> once-checked -> twice-checked -> fully-memorized)
\* has a non-null status_once_checked_at whenever its status is
\* once-checked, twice-checked or fully-memorized.
C17_OnceStampOnNormalPath ==
    \A id \in DOMAIN flashcards :
        flashcards[id].status \in {OnceChecked, TwiceChecked, FullyMemorized} =>
            flashcards[id].status_once_checked_at # NULL

\* A card that went the whole path: once-checked at hour 0, twice-checked a
\* day later, fully memorized two days after that.
C17_Witness ==
    /\ UpdatedExisting
    /\ response.new_status = FullyMemorized
    /\ response.current[1].status = TwiceChecked
    /\ flashcards[response.id].status = FullyMemorized
    /\ flashcards[response.id].status_once_checked_at = 0
    /\ flashcards[response.id].status_twice_checked_at = OnceCheckedDelay
    /\ flashcards[response.id].status_fully_memorized_at = OnceCheckedDelay + TwiceCheckedDelay

\* C20: after any calls of add_flashcard and of update_flashcard_status with
\* the four statuses, skips and resets included, a card that is once-checked,
\* twice-checked or fully-memorized has the stamp of that status; hence
\* render_flashcard always has a button or an "hours left" notice for a
\* once- or twice-checked card, in the Due for Review tab as anywhere.
C20_StampOfCurrentStatus ==
    /\ \A id \in DOMAIN flashcards :
        LET row == flashcards[id] IN
        /\ \A col \in StampOf(row.status) : row[col] # NULL
        /\ row.status \in {OnceChecked, TwiceChecked} =>
                Widget(row, clock).kind \in {"button", "hours_left"}
    /\ response.op = "due_tab" =>
        \A i \in DOMAIN response.data :
            response.data[i].card.status \in {OnceChecked, TwiceChecked} =>
                response.data[i].widget # NoWidget

\* The tab lists a card that skipped once-checked: it never had that stamp,
\* was reset and made twice-checked again, and has its button.
C20_Witness ==
    /\ response.op = "due_tab"
    /\ Len(response.data) = 1
    /\ response.data[1].card.status = TwiceChecked
    /\ response.data[1].card.status_once_checked_at = NULL
    /\ response.data[1].card.status_fully_memorized_at # NULL
    /\ response.data[1].card.status_twice_checked_at > response.data[1].card.status_fully_memorized_at
    /\ response.data[1].widget = Button(FullyMemorized)

\* The rows of a chat_history table that belong to user_id.
HistoryOf(table, user_id) == {id \in DOMAIN table : table[id].user_id = user_id}

\* The step is a submitted chat message.
Submitted == Len(chat_messages') > Len(chat_messages)

\* The number of user messages in the chat.
UserMessages(messages) ==
    Cardinality({i \in DOMAIN messages : messages[i].role = "user"})

\* Every row of the table is in the table of the next state as it was.
RowsKept == \A id \in DOMAIN chat_history :
                id \in DOMAIN chat_history' /\ chat_history'[id] = chat_history[id]

C19_FailedSessionPersistsNothing ==
    [][(Submitted /\ session'.outcome # Completed) =>
            /\ chat_messages'[Len(chat_messages')] = [role |-> "system", content |-> Diagnostic]
            /\ report' = report
            /\ chat_history' = chat_history
            /\ flashcards' = flashcards]_vars

\* The hours a card has to stay in a status before the next one is offered.
DelayOf(status) ==
    CASE status = OnceChecked -> OnceCheckedDelay
      [] status = TwiceChecked -> TwiceCheckedDelay
      [] OTHER -> 0

\* The card is offered, or given, new_status at hour now by the rules of the
\* progression: one step forward, and not before the delay of its status has
\* passed since the stamp of that status.
OneStepAfterDelay(card, new_status, now) ==
    /\ card.status \in {ToLearn, OnceChecked, TwiceChecked}
    /\ StageRank(new_status) = StageRank(card.status) + 1
    /\ \A col \in StampOf(card.status) :
            card[col] # NULL /\ now - card[col] >= DelayOf(card.status)

Writers == {s \in Sessions : pending[s] # NoCall /\ pending'[s] = NoCall}

C21_WitnessStalePage ==
    /\ response.op = "update"
    /\ response.new_status = OnceChecked
    /\ response.data # <<>>
    /\ response.data[1].status = OnceChecked
    /\ response.data[1].status_twice_checked_at = OnceCheckedDelay
    /\ flashcards = <<response.data[1]>>

\* now is not earlier than any timestamp the row holds.
InOrder(row, now) ==
    /\ now >= row.last_checked_at
    /\ \A col \in StampColumns : now >= row[col]

\* C22: last_checked_at is NULL exactly for the cards no update was applied
\* to, no step makes it smaller, and it is never smaller than a stamp of the
\* card that is set, and equal to the stamp of the card's status when that
\* status has one.
C22_LastCheckedNeverDecreases ==
    [][\A id \in DOMAIN flashcards' :
        LET new == flashcards'[id] IN
        /\ id \notin DOMAIN flashcards => new.last_checked_at = NULL
        /\ id \in DOMAIN flashcards =>
            /\ new = flashcards[id] \/ new.last_checked_at # NULL
            /\ new.last_checked_at >= flashcards[id].last_checked_at
        /\ \A col \in StampColumns : new.last_checked_at >= new[col]
        /\ \A col \in StampOf(new.status) : new.last_checked_at = new[col]]_vars

\* C22, as the code has it: last_checked_at is NULL exactly for the cards no
\* update was applied to; an update that is applied sets it to the hour its
\* call read from the clock, which is also the stamp of the new status when
\* that status has one; and when that hour is not earlier than the
\* timestamps the row holds (the calls are applied in the order in which
\* they read the clock) last_checked_at does not decrease and is not
\* smaller than any stamp of the card.
C22_LastCheckedOfAppliedCall ==
    [][\A id \in DOMAIN flashcards' :
        LET new == flashcards'[id] IN
        /\ id \notin DOMAIN flashcards => new.last_checked_at = NULL
        /\ id \in DOMAIN flashcards =>
            \/ new = flashcards[id]
            \/ \E s \in Writers :
                LET call == pending[s] IN
                /\ call.id = id
                /\ new.last_checked_at = call.now
                /\ new.last_checked_at # NULL
                /\ \A col \in StampOf(new.status) : new[col] = call.now
                /\ InOrder(flashcards[id], call.now) =>
                        /\ new.last_checked_at >= flashcards[id].last_checked_at
                        /\ \A col \in StampColumns : new.last_checked_at >= new[col]]_vars

\* A card once-checked at hour 0 is made twice-checked by a call that read
\* the clock at hour 24, while no other call is under way.
C22_Witness ==
    /\ response.op = "update"
    /\ response.new_status = TwiceChecked
    /\ response.now = OnceCheckedDelay
    /\ response.data # <<>>
    /\ flashcards = <<response.data[1]>>
    /\ flashcards[1].last_checked_at = OnceCheckedDelay
    /\ flashcards[1].status_twice_checked_at = OnceCheckedDelay
    /\ flashcards[1].status_once_checked_at = 0
    /\ flashcards[1].status_fully_memorized_at = NULL
    /\ \A s \in Sessions : pending[s] = NoCall

\* The call that read the clock at hour 0 is applied after the call that
\* read it at hour 24: last_checked_at is back at 0, below the other stamp.
C22_WitnessOverlap ==
    /\ response.op = "update"
    /\ response.now = 0
    /\ response.data # <<>>
    /\ flashcards = <<response.data[1]>>
    /\ flashcards[1].last_checked_at = 0
    /\ flashcards[1].status_twice_checked_at = OnceCheckedDelay

\* next_review_at as the branch of new_status computes it from now.
NextReviewOf(new_status, now) ==
    CASE new_status = OnceChecked -> now + OnceCheckedDelay
      [] new_status = TwiceChecked -> now + TwiceCheckedDelay
      [] new_status = FullyMemorized -> NULL
      [] OTHER -> now

\* C23: when the calls of two sessions on a card overlap, or a call overlaps
\* a delete, every update is applied in one step: the row then has the
\* status, the stamp of that status, last_checked_at and next_review_at of
\* that one call and every other column as before, no step without a write
\* changes a row, next_review_at is NULL exactly for the fully-memorized
\* cards, and an update applied after the delete of its card leaves the
\* table without that card and returns no row.
C23_UpdateAppliedWhole ==
    [][/\ \A s \in Writers :
            LET call == pending[s] IN
            /\ call.id \in DOMAIN flashcards =>
                /\ call.id \in DOMAIN flashcards'
                /\ LET old == flashcards[call.id]
                       new == flashcards'[call.id]
                   IN  /\ new.status = call.new_status
                       /\ new.last_checked_at = call.now
                       /\ new.next_review_at = NextReviewOf(call.new_status, call.now)
                       /\ \A col \in StampOf(call.new_status) : new[col] = call.now
                       /\ \A col \in DOMAIN old \ ({"status", "last_checked_at", "next_review_at"}
                                                    \cup StampOf(call.new_status)) :
                                new[col] = old[col]
                       /\ response'.data = <<new>>
            /\ call.id \notin DOMAIN flashcards =>
                /\ flashcards' = flashcards
                /\ response'.data = <<>>
            /\ \A id \in DOMAIN flashcards \ {call.id} :
                    id \in DOMAIN flashcards' /\ flashcards'[id] = flashcards[id]
       /\ Writers = {} =>
            \A id \in DOMAIN flashcards \cap DOMAIN flashcards' :
                flashcards'[id] = flashcards[id]
       /\ \A id \in DOMAIN flashcards' \ DOMAIN flashcards : id = next_id
       /\ \A id \in DOMAIN flashcards' :
            flashcards'[id].next_review_at = NULL <=> flashcards'[id].status = FullyMemorized]_vars

\* The call of one session, which read the clock at hour 24, has been
\* applied while the call of another session on the same card, which read
\* the clock at hour 0 and asks for another status, is still under way.
C23_Witness ==
    /\ response.op = "update"
    /\ response.new_status = FullyMemorized
    /\ response.now = OnceCheckedDelay
    /\ response.data # <<>>
    /\ flashcards = <<response.data[1]>>
    /\ flashcards[1].status = FullyMemorized
    /\ flashcards[1].next_review_at = NULL
    /\ \E s \in Sessions :
        /\ pending[s] # NoCall
        /\ pending[s].id = 1
        /\ pending[s].now = 0
        /\ pending[s].new_status = OnceChecked

\* The update of a call that began before the delete of its card is applied
\* after it: no row comes back and the table stays empty.
C23_WitnessAfterDelete ==
    /\ response.op = "update"
    /\ response.id = 1
    /\ response.data = <<>>
    /\ flashcards = <<>>
    /\ next_id = 2

====
